---------------------------- MODULE Spec2Model ----------------------------
(***************************************************************************)
(* Model of the podcast directory's data-fetch / derive pipeline:          *)
(*   - App (src/src/App.jsx): the catalog state and fetchPodcasts;         *)
(*   - fetchShowDetails (src/src/App.jsx);                                 *)
(*   - ShowDetailPage (src/src/components/ShowDetailPage.jsx): its four    *)
(*     state slots, its effect, its season selector and its derived        *)
(*     values (genreTags, totalEpisodes, currentSeason, episode summary).  *)
(*                                                                         *)
(* JavaScript null is modelled as the empty sequence Null and a non-null   *)
(* value v as the one-element sequence Some(v).  A string whose characters *)
(* matter (an episode description) is a sequence of character codes; a     *)
(* message string is a TLA+ string.                                        *)
(***************************************************************************)
EXTENDS Integers, Sequences, FiniteSets, TLC

\* Number of show-detail fetches one run of the model issues.
MaxFetches == 2

Null == <<>>
Some(v) == <<v>>

Min(a, b) == IF a < b THEN a ELSE b
Max(a, b) == IF a > b THEN a ELSE b

---------------------------------------------------------------------------
(* The remote API, an opaque collaborator: what it may answer.             *)

\* An episode description of n characters (character codes, varying by position).
Description(n) == [i \in 1..n |-> 97 + (i % 26)]

Episode(t, n) == [title |-> t, description |-> Description(n), file |-> "audio"]

\* The show ids a route can carry.
ShowIds == {"A", "B", "C"}

\* The PodcastShow record the API holds for each id (typedef PodcastShow).
ServerShow(showId) ==
    CASE showId = "A" ->
           [id |-> "A", title |-> "Alpha", genres |-> <<1, 99>>,
            seasons |-> << [season |-> 1, title |-> "A1",
                            episodes |-> <<Episode("a", 10), Episode("b", 151)>>],
                           [season |-> 2, title |-> "A2",
                            episodes |-> <<Episode("c", 150)>>] >>]
      [] showId = "B" ->
           [id |-> "B", title |-> "Beta", genres |-> <<2, 1, 2>>,
            seasons |-> << [season |-> 1, title |-> "B1",
                            episodes |-> <<Episode("d", 0), Episode("e", 149),
                                           Episode("f", 200)>>] >>]
      [] OTHER ->
           [id |-> "C", title |-> "Gamma", genres |-> <<>>, seasons |-> <<>>]

\* HTTP statuses the API may answer with.
Statuses == {200, 300, 404, 500}

\* What one request may end in: the transport failing (fetch rejects), or a
\* response with a status whose body parses as JSON or does not.
Responses ==
    {[kind |-> "network", status |-> 0, json |-> FALSE]}
    \cup {[kind |-> "http", status |-> s, json |-> TRUE] : s \in Statuses}
    \cup {[kind |-> "http", status |-> 200, json |-> FALSE]}

\* What the catalog request may end in.
CatalogResponses == {r \in Responses : r.status \in {0, 200, 500}}

\* Faulty variant of ResOk: every status from 200 up to 399 counts as a success.
ResOkBelow400(status) == 200 <= status /\ status < 400

\* Response.ok of the Fetch API, read at App.jsx:124 and App.jsx:150.
ResOk(status) == 200 <= status /\ status <= 299

\* err.message of the rejection of fetch() and of res.json().
NetworkErrorMessage == "Failed to fetch"
ParseErrorMessage == "Unexpected token in JSON"

\* The static genre reference list handed to ShowDetailPage (props.genres).
GenreLists ==
    { << [id |-> 1, title |-> "Comedy"] >>,
      << [id |-> 2, title |-> "History"], [id |-> 1, title |-> "Comedy"],
         [id |-> 2, title |-> "Shadowed"] >> }

\* The catalog the API holds (PodcastPreview ids, in order).
ServerCatalog == <<"A", "B", "C">>

---------------------------------------------------------------------------
VARIABLES
    \* ShowDetailPage
    id,                   \* useParams().id
    effectId,             \* the id the effect last ran for (its dependency)
    show,                 \* useState(null)
    loading,              \* useState(true)
    error,                \* useState(null)
    selectedSeasonIndex,  \* useState(0)
    allGenres,            \* props.genres
    fetches,              \* the fetchShowDetails calls made, in order
    \* App
    podcasts,             \* useState([])
    appLoading,           \* useState(true)
    appError,             \* useState(null)
    catalog               \* the fetchPodcasts call: "idle", "pending", "settled"

appVars == <<podcasts, appLoading, appError, catalog>>
vars == <<id, effectId, show, loading, error, selectedSeasonIndex, allGenres,
          fetches, podcasts, appLoading, appError, catalog>>

---------------------------------------------------------------------------
(* fetchShowDetails (App.jsx:145-165), split at its await.                 *)

\* Faulty variant of ShowDetailsErrorMessage: every status from 400 up is reported
\* as "Show not found.".
ShowDetailsErrorMessageAnyClientError(resp) ==
    IF resp.kind = "network" THEN NetworkErrorMessage
    ELSE IF ~ResOk(resp.status)
         THEN IF resp.status >= 400
              THEN "Show not found."
              ELSE "Failed to fetch show details: " \o ToString(resp.status)
         ELSE ParseErrorMessage

\* The message of the Error thrown inside the try block (App.jsx:149-156).
ShowDetailsErrorMessage(resp) ==
    IF resp.kind = "network" THEN NetworkErrorMessage
    ELSE IF ~ResOk(resp.status)
         THEN IF resp.status = 404
              THEN "Show not found."
              ELSE "Failed to fetch show details: " \o ToString(resp.status)
         ELSE ParseErrorMessage

\* Whether the try block throws for this response.
ShowDetailsThrows(resp) ==
    resp.kind = "network" \/ ~ResOk(resp.status) \/ ~resp.json

\* The value fetchShowDetails resolves with: the parsed body, or null.
ShowDetailsData(showId, resp) ==
    IF ShowDetailsThrows(resp) THEN Null ELSE Some(ServerShow(showId))

\* The error slot after the catch block: setError(err.message) or untouched.
ShowDetailsError(resp, cur) ==
    IF ShowDetailsThrows(resp) THEN Some(ShowDetailsErrorMessage(resp)) ELSE cur

---------------------------------------------------------------------------
(* loadShowDetails (ShowDetailPage.jsx:31-40), after its await.            *)

\* if (data) setShow(data)
AppliedShow(data, cur) ==
    IF data # Null THEN data ELSE cur

\* Faulty variant of AppliedSeasonIndex: the index is never reset.
AppliedSeasonIndexNoReset(data, cur) == cur

\* Faulty variant of AppliedSeasonIndex: the reset needs more than one season.
AppliedSeasonIndexOffByOne(data, cur) ==
    IF data # Null /\ Len(data[1].seasons) > 1 THEN 0 ELSE cur

\* if (data && data.seasons && data.seasons.length > 0) setSelectedSeasonIndex(0)
AppliedSeasonIndex(data, cur) ==
    IF data # Null /\ Len(data[1].seasons) > 0 THEN 0 ELSE cur

---------------------------------------------------------------------------
(* What ShowDetailPage renders (ShowDetailPage.jsx:77-113).                *)

View ==
    IF loading THEN "loading"
    ELSE IF error # Null THEN "error"
    ELSE IF show = Null THEN "notfound"
    ELSE "detail"

\* The indexes the season <select> offers (ShowDetailPage.jsx:155-159).
SeasonOptions ==
    IF View = "detail" THEN 0 .. (Len(show[1].seasons) - 1) ELSE {}

Pending(n) == n \in 1..Len(fetches) /\ ~fetches[n].settled

---------------------------------------------------------------------------
(* The derived values of ShowDetailPage (ShowDetailPage.jsx:48-67, 113,    *)
(* 180).                                                                   *)

RECURSIVE FindFrom(_, _, _)
\* Array.prototype.find from position j on: the first element with this id,
\* as Some(element), or Null (undefined).
FindFrom(genres, genreId, j) ==
    IF j > Len(genres) THEN Null
    ELSE IF genres[j].id = genreId THEN Some(genres[j])
    ELSE FindFrom(genres, genreId, j + 1)

\* Faulty variant of GenreTagText: an unmatched id is labelled without the id.
GenreTagTextNoId(genres, genreId) ==
    LET genreMatch == FindFrom(genres, genreId, 1)
    IN IF genreMatch # Null THEN genreMatch[1].title ELSE "Unknown"

\* The text of one genre tag: genreMatch ? genreMatch.title : `Unknown (${genreId})`
GenreTagText(genres, genreId) ==
    LET genreMatch == FindFrom(genres, genreId, 1)
    IN IF genreMatch # Null THEN genreMatch[1].title
       ELSE "Unknown (" \o ToString(genreId) \o ")"

\* genreTags: show.genres.map(...), [] when there is no show.
GenreTags(sh, genres) ==
    IF sh = Null THEN <<>>
    ELSE [i \in 1..Len(sh[1].genres) |-> GenreTagText(genres, sh[1].genres[i])]

RECURSIVE Reduce(_, _, _)
\* seasons.reduce((acc, season) => acc + season.episodes.length, acc) from
\* position j on.
Reduce(seasons, acc, j) ==
    IF j > Len(seasons) THEN acc
    ELSE Reduce(seasons, acc + Len(seasons[j].episodes), j + 1)

\* Faulty variant of TotalEpisodes: the seasons are counted, not their episodes.
TotalEpisodesCountsSeasons(sh) ==
    IF sh = Null THEN 0 ELSE Len(sh[1].seasons)

\* totalEpisodes: 0 when there is no show.
TotalEpisodes(sh) ==
    IF sh = Null THEN 0 ELSE Reduce(sh[1].seasons, 0, 1)

\* const currentSeason = show.seasons[selectedSeasonIndex]: Null is undefined.
CurrentSeason(sh, index) ==
    IF index >= 0 /\ index < Len(sh[1].seasons)
    THEN Some(sh[1].seasons[index + 1]) ELSE Null

\* The length episode descriptions are cut to.
SummaryLimit == 150

\* The marker "..." written after the cut description.
Ellipsis == <<46, 46, 46>>

\* String.prototype.substring(start, end): both clamped to [0, length],
\* swapped when start > end, the characters from start up to end - 1.
Substring(str, start, end) ==
    LET a == Min(Max(start, 0), Len(str))
        b == Min(Max(end, 0), Len(str))
    IN SubSeq(str, Min(a, b) + 1, Max(a, b))

\* Faulty variant of EpisodeSummary: the marker is written only after a cut.
EpisodeSummaryMarkerOnlyWhenCut(description) ==
    IF Len(description) > SummaryLimit
    THEN Substring(description, 0, SummaryLimit) \o Ellipsis
    ELSE description

\* {episode.description.substring(0, 150)}...
EpisodeSummary(description) ==
    Substring(description, 0, SummaryLimit) \o Ellipsis

\* The summaries the episode grid shows: those of the current season's
\* episodes, when the detail branch is rendered and currentSeason is defined.
RenderedSummaries ==
    IF View = "detail" /\ CurrentSeason(show, selectedSeasonIndex) # Null
    THEN LET eps == CurrentSeason(show, selectedSeasonIndex)[1].episodes
         IN [i \in 1..Len(eps) |-> EpisodeSummary(eps[i].description)]
    ELSE <<>>

---------------------------------------------------------------------------
Init ==
    /\ id \in ShowIds
    /\ effectId = Null
    /\ show = Null
    /\ loading = TRUE
    /\ error = Null
    /\ selectedSeasonIndex = 0
    /\ allGenres \in GenreLists
    /\ fetches = <<>>
    /\ podcasts = <<>>
    /\ appLoading = TRUE
    /\ appError = Null
    /\ catalog = [state |-> "idle", response |-> Null]

\* The route parameter changes: /podcast/:id is re-rendered, not remounted.
\* React flushes the effect of the previous render before this one.
Navigate(newId) ==
    /\ effectId = Some(id)
    /\ newId # id
    /\ Len(fetches) < MaxFetches
    /\ id' = newId
    /\ UNCHANGED <<effectId, show, loading, error, selectedSeasonIndex,
                   allGenres, fetches>>
    /\ UNCHANGED appVars

\* useEffect(..., [id]): loadShowDetails() up to the await inside
\* fetchShowDetails: setLoading(true), setError(null), the request is sent.
RunEffect ==
    /\ effectId # Some(id)
    /\ Len(fetches) < MaxFetches
    /\ effectId' = Some(id)
    /\ loading' = TRUE
    /\ error' = Null
    /\ fetches' = Append(fetches,
                         [showId |-> id,
                          raced |-> \E n \in 1..Len(fetches) : Pending(n),
                          settled |-> FALSE,
                          response |-> Null])
    /\ UNCHANGED <<id, show, selectedSeasonIndex, allGenres>>
    /\ UNCHANGED appVars

\* The n-th request ends with resp: the rest of fetchShowDetails (catch,
\* finally) and then the rest of loadShowDetails, with no check that the
\* request is still the current one.
CompleteFetch(n, resp) ==
    /\ Pending(n)
    /\ LET data == ShowDetailsData(fetches[n].showId, resp)
       IN /\ error' = ShowDetailsError(resp, error)
          /\ loading' = FALSE
          /\ show' = AppliedShow(data, show)
          /\ selectedSeasonIndex' = AppliedSeasonIndex(data, selectedSeasonIndex)
    /\ fetches' = [fetches EXCEPT ![n].settled = TRUE, ![n].response = Some(resp)]
    /\ UNCHANGED <<id, effectId, allGenres>>
    /\ UNCHANGED appVars

\* handleSeasonChange: the user picks one of the rendered options.
HandleSeasonChange(i) ==
    /\ i \in SeasonOptions
    /\ selectedSeasonIndex' = i
    /\ UNCHANGED <<id, effectId, show, loading, error, allGenres, fetches>>
    /\ UNCHANGED appVars

---------------------------------------------------------------------------
(* App and fetchPodcasts (App.jsx:22-28, 121-133).                         *)

\* The message of the Error thrown inside fetchPodcasts' try block.
PodcastsErrorMessage(resp) ==
    IF resp.kind = "network" THEN NetworkErrorMessage
    ELSE IF ~ResOk(resp.status) THEN ToString(resp.status)
    ELSE ParseErrorMessage

PodcastsThrows(resp) ==
    resp.kind = "network" \/ ~ResOk(resp.status) \/ ~resp.json

\* useEffect(..., []): fetchPodcasts up to its await.
AppEffect ==
    /\ catalog.state = "idle"
    /\ catalog' = [state |-> "pending", response |-> Null]
    /\ UNCHANGED <<podcasts, appLoading, appError>>
    /\ UNCHANGED <<id, effectId, show, loading, error, selectedSeasonIndex,
                   allGenres, fetches>>

\* The catalog request ends with resp: setPodcasts or setError, setLoading(false).
CompleteCatalog(resp) ==
    /\ catalog.state = "pending"
    /\ catalog' = [state |-> "settled", response |-> Some(resp)]
    /\ podcasts' = IF PodcastsThrows(resp) THEN podcasts ELSE ServerCatalog
    /\ appError' = IF PodcastsThrows(resp)
                   THEN Some(PodcastsErrorMessage(resp)) ELSE appError
    /\ appLoading' = FALSE
    /\ UNCHANGED <<id, effectId, show, loading, error, selectedSeasonIndex,
                   allGenres, fetches>>

---------------------------------------------------------------------------
Next ==
    \/ \E newId \in ShowIds : Navigate(newId)
    \/ RunEffect
    \/ \E n \in 1..MaxFetches, resp \in Responses : CompleteFetch(n, resp)
    \/ \E i \in SeasonOptions : HandleSeasonChange(i)
    \/ AppEffect
    \/ \E resp \in CatalogResponses : CompleteCatalog(resp)

Spec == Init /\ [][Next]_vars

---------------------------------------------------------------------------
(* Vocabulary of the properties below.                                     *)

\* A request that ended in a failure: the transport failed, the status is
\* outside [200,299], or the body did not parse.
FailedResponse(resp) ==
    \/ resp.kind = "network"
    \/ resp.status < 200
    \/ resp.status > 299
    \/ ~resp.json

\* A response carrying a status outside [200,299].
NonSuccessStatus(resp) ==
    resp.kind = "http" /\ (resp.status < 200 \/ resp.status > 299)

\* The n-th fetchShowDetails call settles in this step.
Settles(n) == Pending(n) /\ fetches'[n].settled

\* The fetch of the currently requested id: the last one issued, once the
\* effect has run for the current id.
IsCurrent(n) == n = Len(fetches) /\ effectId = Some(id)

AllSettled == \A n \in 1..Len(fetches) : fetches[n].settled

---------------------------------------------------------------------------
(* C1: stale-response suppression.  When the id changed while an earlier   *)
(* fetch was pending, then once every fetch has completed the view shows   *)
(* the outcome of the fetch for the current id only: its detail when it    *)
(* succeeded, its error message when it failed.                            *)
C1_FinalStateReflectsLatestFetch ==
    \A n \in 1..Len(fetches) :
        (IsCurrent(n) /\ fetches[n].raced /\ AllSettled)
        => LET resp == fetches[n].response[1]
           IN /\ loading = FALSE
              /\ IF FailedResponse(resp)
                 THEN View = "error"
                      /\ error = Some(ShowDetailsErrorMessage(resp))
                 ELSE View = "detail"
                      /\ show = Some(ServerShow(fetches[n].showId))

(* C2: loading indicator while pending.  While the fetch issued for the    *)
(* currently requested id has not completed, loading is true.              *)
C2_LoadingWhileCurrentPending ==
    \A n \in 1..Len(fetches) :
        (IsCurrent(n) /\ Pending(n)) => loading = TRUE

(* C3: a failed show-detail fetch leaves the detail slot absent: after the *)
(* failure is applied, show is null.                                       *)
C3_FailureClearsShow ==
    [][\A n \in 1..Len(fetches) :
          (Settles(n) /\ FailedResponse(fetches'[n].response[1]))
          => show' = Null]_vars

(* C4: season-index validity.  Whenever a show is loaded and its seasons   *)
(* are non-empty, 0 <= selectedSeasonIndex < length(seasons).              *)
C4_SeasonIndexValid ==
    (show # Null /\ Len(show[1].seasons) > 0)
    => (0 <= selectedSeasonIndex /\ selectedSeasonIndex < Len(show[1].seasons))

\* C4's case: a show with fewer seasons was loaded over one with more.
C4_Witness ==
    /\ Len(fetches) = 2
    /\ AllSettled
    /\ fetches[1].showId = "A" /\ ~FailedResponse(fetches[1].response[1])
    /\ fetches[2].showId = "B" /\ ~FailedResponse(fetches[2].response[1])
    /\ show = Some(ServerShow("B"))
    /\ View = "detail"
    /\ CurrentSeason(show, selectedSeasonIndex) # Null

(* C5 as stated: every successful fetch result applied to show leaves      *)
(* selectedSeasonIndex at 0, whatever its seasons are.                     *)
C5_ResetOnEveryLoad ==
    [][\A n \in 1..Len(fetches) :
          (Settles(n) /\ ~FailedResponse(fetches'[n].response[1]))
          => selectedSeasonIndex' = 0]_vars

(* C5 as amended: a successful fetch result whose seasons are non-empty    *)
(* leaves selectedSeasonIndex at 0; one whose seasons are empty leaves the *)
(* index as it was.                                                        *)
C5_ResetOnNonEmptyLoad ==
    [][\A n \in 1..Len(fetches) :
          (Settles(n) /\ ~FailedResponse(fetches'[n].response[1]))
          => /\ show' # Null
             /\ Len(show'[1].seasons) > 0 => selectedSeasonIndex' = 0
             /\ Len(show'[1].seasons) = 0
                    => selectedSeasonIndex' = selectedSeasonIndex]_vars

\* C5's case: a show without seasons was loaded while index 1 was selected.
C5_Witness ==
    /\ show = Some(ServerShow("C"))
    /\ selectedSeasonIndex = 1
    /\ \E n \in 1..Len(fetches) :
          /\ fetches[n].showId = "C"
          /\ fetches[n].settled
          /\ ~FailedResponse(fetches[n].response[1])

(* C6: for every status outside [200,299], fetchPodcasts and               *)
(* fetchShowDetails end in an error and never a partial success: the error *)
(* slot holds a message, the data slot is not written, loading ends false. *)
C6_NonSuccessStatusIsError ==
    [][/\ \A n \in 1..Len(fetches) :
             (Settles(n) /\ NonSuccessStatus(fetches'[n].response[1]))
             => /\ error' # Null
                /\ show' = show
                /\ loading' = FALSE
       /\ (catalog.state = "pending" /\ catalog'.state = "settled"
           /\ NonSuccessStatus(catalog'.response[1]))
          => /\ appError' = Some(ToString(catalog'.response[1].status))
             /\ podcasts' = podcasts
             /\ appLoading' = FALSE]_vars

\* C6's case: both requests were answered with a status outside [200,299].
C6_Witness ==
    /\ catalog.state = "settled"
    /\ NonSuccessStatus(catalog.response[1])
    /\ appError = Some("500")
    /\ podcasts = <<>>
    /\ appLoading = FALSE
    /\ Len(fetches) = 1
    /\ fetches[1].settled
    /\ NonSuccessStatus(fetches[1].response[1])
    /\ fetches[1].response[1].status = 300
    /\ error # Null
    /\ show = Null
    /\ loading = FALSE

(* C7: a 404 answer yields exactly "Show not found."; any other status s   *)
(* outside [200,299] yields "Failed to fetch show details: s"; the 404     *)
(* message is produced for no other status.                                *)
C7_NotFoundMessage ==
    [][\A n \in 1..Len(fetches) :
          (Settles(n) /\ NonSuccessStatus(fetches'[n].response[1]))
          => LET s == fetches'[n].response[1].status
             IN /\ s = 404 => error' = Some("Show not found.")
                /\ s # 404 => error' = Some("Failed to fetch show details: "
                                             \o ToString(s))
                /\ error' = Some("Show not found.") => s = 404]_vars

\* C7's case: a 404 and a 500 were answered, the 500 last.
C7_Witness ==
    /\ Len(fetches) = 2
    /\ AllSettled
    /\ fetches[1].response[1].status = 404
    /\ fetches[2].response[1].status = 500
    /\ error = Some("Failed to fetch show details: 500")

---------------------------------------------------------------------------
(* C8: genre labels.  The labels have the length and order of the show's   *)
(* genre ids, without deduplication; label i is the title of a reference   *)
(* genre with that id when there is one, "Unknown (<id>)" otherwise.       *)
C8_GenreLabels ==
    LET tags == GenreTags(show, allGenres)
    IN IF show = Null THEN tags = <<>>
       ELSE /\ Len(tags) = Len(show[1].genres)
            /\ \A i \in 1..Len(tags) :
                  LET gid == show[1].genres[i]
                      matches == {j \in 1..Len(allGenres) : allGenres[j].id = gid}
                  IN IF matches = {}
                     THEN tags[i] = "Unknown (" \o ToString(gid) \o ")"
                     ELSE \E j \in matches : tags[i] = allGenres[j].title

\* C8's case: genres [1, 99] against the reference [{id: 1, title: "Comedy"}].
C8_Witness ==
    /\ show = Some(ServerShow("A"))
    /\ allGenres = << [id |-> 1, title |-> "Comedy"] >>
    /\ GenreTags(show, allGenres) = <<"Comedy", "Unknown (99)">>

(* C9: total episode count.  The total is the sum of episodes.length over  *)
(* the seasons of the loaded show, 0 when it has no seasons and 0 when no  *)
(* show is loaded.                                                         *)
C9_TotalEpisodes ==
    IF show = Null THEN TotalEpisodes(show) = 0
    ELSE LET seasons == show[1].seasons
             slots == UNION {{<<j, k>> : k \in 1..Len(seasons[j].episodes)}
                             : j \in 1..Len(seasons)}
         IN /\ TotalEpisodes(show) = Cardinality(slots)
            /\ seasons = <<>> => TotalEpisodes(show) = 0

\* C9's case: seasons with two episodes and one episode, three in total.
C9_Witness ==
    /\ show = Some(ServerShow("A"))
    /\ Len(show[1].seasons[1].episodes) = 2
    /\ Len(show[1].seasons[2].episodes) = 1
    /\ TotalEpisodes(show) = 3

(* C10: episode summary.  Each rendered summary is the first               *)
(* min(length(d), 150) characters of the description d followed by "...",  *)
(* also when d is shorter than 150 characters.                             *)
C10_EpisodeSummary ==
    (View = "detail" /\ CurrentSeason(show, selectedSeasonIndex) # Null)
    => LET eps == CurrentSeason(show, selectedSeasonIndex)[1].episodes
       IN /\ Len(RenderedSummaries) = Len(eps)
          /\ \A i \in 1..Len(eps) :
                LET d == eps[i].description
                    kept == IF Len(d) < 150 THEN Len(d) ELSE 150
                    sum == RenderedSummaries[i]
                IN /\ Len(sum) = kept + 3
                   /\ \A k \in 1..kept : sum[k] = d[k]
                   /\ \A k \in 1..3 : sum[kept + k] = 46

\* C10's case: a 10-character and a 151-character description are rendered.
C10_Witness ==
    /\ View = "detail"
    /\ show = Some(ServerShow("A"))
    /\ selectedSeasonIndex = 0
    /\ Len(RenderedSummaries) = 2
    /\ Len(RenderedSummaries[1]) = 13
    /\ Len(RenderedSummaries[2]) = 153

===========================================================================
